---- MODULE Spec2Model ----
(***************************************************************************)
(* The Upload component of the CT vs MRI analyzer                          *)
(* (src/components/Upload.tsx): its React state, the shared preview        *)
(* canvas, the handleFile invocation suspended at its await, and the Image *)
(* objects whose onload/onerror has not fired yet.                         *)
(*                                                                         *)
(* The library the component imports (../lib/dicom, ../lib/analysis) is    *)
(* not among the source files; isLikelyDicom, parseDicom,                  *)
(* normalizeDicomToGrayscale8, computeFeaturesFromImageData and            *)
(* classifyFeatures are modelled from the specification's contract.        *)
(*                                                                         *)
(* Three specifications:                                                   *)
(*   Spec           the component as a state machine                       *)
(*   SpecResize     the resize arithmetic of lines 41-44 and 92-95         *)
(*   SpecNormalize  the normalizer call of lines 46-53                     *)
(***************************************************************************)
EXTENDS Integers, Sequences, FiniteSets, TLC

VARIABLES
    result,      \* useState<Result | null>            (line 18)
    error,       \* useState<string | null>            (line 19)
    loading,     \* useState(false)                    (line 20)
    canvas,      \* canvasRef.current: the preview canvas (line 17)
    ctxOk,       \* whether canvas.getContext('2d') yields a context
    weights,     \* the classifier's fixed weights (tuned offline)
    pickerOpen,  \* the file dialog opened by onPick is showing
    reading,     \* the run suspended at `await file.arrayBuffer()`
    images,      \* runs whose Image has src set and no callback fired yet
    runs,        \* history: one record per handleFile invocation
    rz,          \* SpecResize: the source size and the computed size
    nz           \* SpecNormalize: the decoded record pair and the rasters

vars == <<result, error, loading, canvas, ctxOk, weights, pickerOpen,
          reading, images, runs, rz, nz>>

\* JavaScript null / undefined, and a present value.
None == <<>>
Some(x) == <<x>>
Val(o) == o[1]

Max(a, b) == IF a >= b THEN a ELSE b
Min(a, b) == IF a <= b THEN a ELSE b

RECURSIVE SeqSum(_)
SeqSum(s) == IF s = <<>> THEN 0 ELSE Head(s) + SeqSum(Tail(s))

SeqMin(s) == CHOOSE x \in {s[i] : i \in 1..Len(s)} :
                 \A y \in {s[i] : i \in 1..Len(s)} : x <= y
SeqMax(s) == CHOOSE x \in {s[i] : i \in 1..Len(s)} :
                 \A y \in {s[i] : i \in 1..Len(s)} : x >= y

(***************************************************************************)
(* Bounds of the model.                                                    *)
(***************************************************************************)
MaxSelections == 2   \* file selections in one behaviour
Slack == 3           \* SpecResize: sides this far around 0 and each maxDim
MaxSamples == 3      \* SpecNormalize: longest enumerated sample sequence
ProbDen == 2         \* probabilities are multiples of 1/ProbDen

(***************************************************************************)
(* Resize arithmetic (lines 41-44 on the DICOM path, 92-95 in img.onload). *)
(***************************************************************************)
DicomMaxDim == 512
ImageMaxDim == 768

\* IEEE-754 double results of Math.floor(c * (maxDim / m)) that fall one
\* below the exact quotient because maxDim / m was rounded down: the triples
\* <<maxDim, c, m>> among the sides the model draws.  (561 x 561 on the
\* DICOM path yields a 511 x 511 canvas.)
RoundsBelow ==
    { <<512, 561, 561>>, <<512, 161, 644>>, <<512, 322, 644>>,
      <<512, 644, 644>>, <<512, 765, 765>>,
      <<768, 161, 966>>, <<768, 322, 966>>, <<768, 644, 966>>,
      <<768, 535, 1070>>, <<768, 1070, 1070>> }

\* Math.floor(side * scale) with scale = Math.min(1, maxDim / m), m the
\* larger side.  m = 0 gives maxDim / 0 = Infinity and scale = 1.
FloorScaled(side, m, maxDim) ==
    IF m <= maxDim THEN side
    ELSE ((side * maxDim) \div m)
         - (IF <<maxDim, side, m>> \in RoundsBelow THEN 1 ELSE 0)

ScaledSide_NoFloorOfOne(side, m, maxDim) == FloorScaled(side, m, maxDim)

\* Math.max(1, Math.floor(side * scale))
ScaledSide(side, m, maxDim) == Max(1, FloorScaled(side, m, maxDim))

\* [width, height] for a source of columns x rows
ResizeDims(columns, rows, maxDim) ==
    [width  |-> ScaledSide(columns, Max(columns, rows), maxDim),
     height |-> ScaledSide(rows, Max(columns, rows), maxDim)]

(***************************************************************************)
(* lib/dicom (not among the source files; from the specification, 4.2, 6). *)
(***************************************************************************)
MagicOffset == 128
Magic == <<68, 73, 67, 77>>      \* 'D', 'I', 'C', 'M'

\* isLikelyDicom(bytes): the 4-byte literal at offset 128, nothing else.
isLikelyDicom(bytes) ==
    /\ Len(bytes) >= MagicOffset + Len(Magic)
    /\ \A i \in 1..Len(Magic) : bytes[MagicOffset + i] = Magic[i]

\* parseDicom(arrayBuffer): null for a buffer that is not DICOM, a thrown
\* tagged error for a stream the Tag Reader cannot scan or whose pixel data
\* is encapsulated, otherwise the record of the tags found (Rows or Columns
\* absent reads as 0, PixelData absent as None: lines 38-39 test for them).
parseDicom(f) ==
    IF ~isLikelyDicom(f.head) THEN [tag |-> "null"]
    ELSE IF f.stream = "truncated"
         THEN [tag |-> "throw", msg |-> "TruncatedStreamError"]
    ELSE IF f.stream = "encapsulated"
         THEN [tag |-> "throw", msg |-> "UnsupportedEncodingError"]
    ELSE [tag |-> "ok", info |-> f.tags]

(***************************************************************************)
(* lib/analysis: the Intensity Normalizer (specification 4.3).             *)
(***************************************************************************)
\* n / d rounded to the nearest integer, ties to even, then clamped to
\* 0..255: the store into the Uint8ClampedArray that ImageData requires.
ToUint8Clamped(n, d) ==
    LET q == n \div d
        r == n - q * d
        rounded == IF 2 * r < d THEN q
                   ELSE IF 2 * r > d THEN q + 1
                   ELSE IF q % 2 = 0 THEN q ELSE q + 1
    IN  Max(0, Min(255, rounded))

\* normalizeDicomToGrayscale8(pixelData, opts): rescale, window (the given
\* one, or derived from the rescaled minimum and maximum with a width floor
\* of 1), map center - width/2 -> 0 and center + width/2 -> 255, clamp, and
\* invert under MONOCHROME1.  The window is kept doubled (center2 = 2 *
\* center) so that a half-integer center stays an integer.
normalizeDicomToGrayscale8(pixelData, opts) ==
    IF pixelData.bits \notin {8, 16}
    THEN [tag |-> "throw", msg |-> "UnsupportedBitDepthError"]
    ELSE
    LET s == pixelData.samples
        v == [i \in 1..Len(s) |-> s[i] * opts.rescaleSlope + opts.rescaleIntercept]
        given == opts.windowCenter # None /\ opts.windowWidth # None
        center2 == IF given THEN 2 * Val(opts.windowCenter)
                   ELSE SeqMin(v) + SeqMax(v)
        width == IF given THEN Val(opts.windowWidth)
                 ELSE Max(1, SeqMax(v) - SeqMin(v))
        gray == [i \in 1..Len(s) |->
                    ToUint8Clamped((2 * v[i] - center2 + width) * 255, 2 * width)]
        invert == /\ "photometricInterpretation" \in DOMAIN opts
                  /\ opts.photometricInterpretation = "MONOCHROME1"
    IN  [tag |-> "ok",
         val |-> [i \in 1..Len(s) |-> IF invert THEN 255 - gray[i] ELSE gray[i]]]

\* A bug the call site could have: slope and intercept swapped.
NormalizeCall_SwappedRescale(info) ==
    normalizeDicomToGrayscale8(Val(info.pixelData),
        [rows |-> info.rows, columns |-> info.columns,
         rescaleSlope |-> info.rescaleIntercept,
         rescaleIntercept |-> info.rescaleSlope,
         windowCenter |-> info.windowCenter,
         windowWidth |-> info.windowWidth])

\* The call of lines 46-53: the options object carries rows, columns, the
\* rescale pair and the window pair, and nothing else of the record.
NormalizeCall(info) ==
    normalizeDicomToGrayscale8(Val(info.pixelData),
        [rows |-> info.rows, columns |-> info.columns,
         rescaleSlope |-> info.rescaleSlope,
         rescaleIntercept |-> info.rescaleIntercept,
         windowCenter |-> info.windowCenter,
         windowWidth |-> info.windowWidth])

(***************************************************************************)
(* lib/analysis: Feature Extractor and Classifier (specification 4.4, 4.5).*)
(* A raster is kept as one period of its samples: sample i of the image is *)
(* pattern[((i - 1) % Len(pattern)) + 1].  Rasters of up to 2 x 2 pixels   *)
(* carry every sample; the larger ones of the file table are uniform.      *)
(***************************************************************************)
At(p, i) == p[((i - 1) % Len(p)) + 1]

\* Source-over compositing of a half-transparent layer on what is below.
Blend(under, top) ==
    [i \in 1..Max(Len(under), Len(top)) |-> (At(under, i) + At(top, i)) \div 2]

\* The colour samples of a stack of drawn layers, bottom first; a canvas
\* nothing was drawn on reads as transparent black.
RECURSIVE Flatten(_)
Flatten(layers) ==
    IF layers = <<>> THEN <<0>>
    ELSE LET top == layers[Len(layers)]
             below == SubSeq(layers, 1, Len(layers) - 1)
         IN  IF top.alpha = "opaque" \/ below = <<>> THEN top.pattern
             ELSE Blend(Flatten(below), top.pattern)

\* computeFeaturesFromImageData(imageData): the fingerprint, in tenths:
\* mean intensity and the fraction of near-minimum (background) samples.
computeFeaturesFromImageData(imageData) ==
    IF imageData.width < 1 \/ imageData.height < 1
    THEN [tag |-> "throw", msg |-> "MalformedRasterError"]
    ELSE LET s == Flatten(imageData.layers)
             n == Len(s)
             dark == Cardinality({i \in 1..n : s[i] <= 25})
         IN  [tag |-> "ok",
              val |-> <<(SeqSum(s) * 10) \div (255 * n), (dark * 10) \div n>>]

\* sigmoid(score) in thousandths for score = -6..6, saturated beyond.
SigmoidMilli(score) ==
    IF score < -6 THEN 0
    ELSE IF score > 6 THEN 1000
    ELSE <<2, 7, 18, 47, 119, 269, 500, 731, 881, 953, 982, 993, 998>>[score + 7]

\* classifyFeatures(features) under weights w = [bias, weight]: the weighted
\* sum, the sigmoid rounded to the probability grid, the 0.5 threshold.
classifyFeatures(features, w) ==
    LET score == w.bias + SeqSum([i \in 1..Len(features) |-> w.weight[i] * features[i]])
        pCT == (SigmoidMilli(score) * ProbDen + 500) \div 1000
    IN  [label |-> IF 2 * pCT >= ProbDen THEN "CT" ELSE "MRI",
         probabilityCT |-> pCT,
         probabilityMRI |-> ProbDen - pCT]

\* The weights a build may ship with.
Weights == [bias : {-4, 0}, weight : {<<1, -1>>, <<-1, 1>>}]

(***************************************************************************)
(* The platform canvas (HTML canvas 2D context).                           *)
(***************************************************************************)
\* A canvas element before anything touched it: 300 x 150, blank.
BlankCanvas == [width |-> 300, height |-> 150, layers |-> <<>>]

SetCanvasSize_KeepContent(cv, w, h) == [cv EXCEPT !.width = w, !.height = h]

\* canvas.width = width; canvas.height = height (lines 62-63, 96-97):
\* assigning a dimension resets the bitmap to transparent black.
SetCanvasSize(cv, w, h) == [width |-> w, height |-> h, layers |-> <<>>]

\* ctx.drawImage(source, 0, 0, w, h): a source without pixels paints nothing,
\* an opaque one replaces what is below, another one is composited on it.
\* Scaling keeps a uniform raster as it is; the file table's non-uniform
\* rasters are never scaled (their sides are below both maxDim).
DrawImage(cv, src, w, h) ==
    IF src.width = 0 \/ src.height = 0 THEN cv
    ELSE LET layer == [pattern |-> src.pattern, alpha |-> src.alpha]
         IN  [cv EXCEPT !.layers =
                 IF src.alpha = "opaque" THEN <<layer>> ELSE @ \o <<layer>>]

\* ctx.getImageData(0, 0, w, h): IndexSizeError for an empty rectangle.
GetImageData(cv, w, h) ==
    IF w = 0 \/ h = 0 THEN [tag |-> "throw", msg |-> "IndexSizeError"]
    ELSE [tag |-> "ok",
          val |-> [width |-> w, height |-> h, layers |-> cv.layers]]

(***************************************************************************)
(* Files.  head: the file's leading bytes (all of them for a file shorter  *)
(* than 132 bytes); stream, tags: what the element stream after the        *)
(* preamble encodes; image: what the platform image decoder makes of the   *)
(* bytes (decodes = FALSE: img.onerror fires).                             *)
(***************************************************************************)
Pad(n) == [i \in 1..n |-> 0]

Tags(rows, cols, bits, samples, pi, slope, icpt, wc, ww, modality, ts, frames) ==
    [rows |-> rows, columns |-> cols,
     pixelData |-> IF samples = None THEN None
                   ELSE Some([bits |-> bits, samples |-> Val(samples)]),
     photometricInterpretation |-> pi,
     rescaleSlope |-> slope, rescaleIntercept |-> icpt,
     windowCenter |-> wc, windowWidth |-> ww,
     modality |-> modality, transferSyntax |-> ts,
     numberOfFrames |-> frames]

NoTags == Tags(0, 0, 8, None, "MONOCHROME2", 1, 0, None, None, None, None, None)
NoImage == [decodes |-> FALSE, width |-> 0, height |-> 0,
            pattern |-> <<0>>, alpha |-> "opaque"]

DicomFile(stream, tags) ==
    [head |-> Pad(MagicOffset) \o Magic, stream |-> stream,
     tags |-> tags, image |-> NoImage]

OtherFile(head, image) ==
    [head |-> head, stream |-> "ok", tags |-> NoTags, image |-> image]

Ramp == <<0, 85, 170, 255>>

FileTable ==
    << \* 1: 2 x 2, 8-bit, no window tags, Modality CT
       DicomFile("ok", Tags(2, 2, 8, Some(Ramp), "MONOCHROME2", 1, 0, None, None,
                            Some("CT"), Some("1.2.840.10008.1.2.1"), None)),
       \* 2: file 1 with other modality, transfer syntax and frame count
       DicomFile("ok", Tags(2, 2, 8, Some(Ramp), "MONOCHROME2", 1, 0, None, None,
                            Some("MR"), Some("1.2.840.10008.1.2"), Some(2))),
       \* 3: Rows = 0
       DicomFile("ok", Tags(0, 2, 8, Some(Ramp), "MONOCHROME2", 1, 0, None, None,
                            Some("CT"), None, None)),
       \* 4: Columns = 0
       DicomFile("ok", Tags(2, 0, 8, Some(Ramp), "MONOCHROME2", 1, 0, None, None,
                            Some("CT"), None, None)),
       \* 5: no PixelData element
       DicomFile("ok", Tags(2, 2, 8, None, "MONOCHROME2", 1, 0, None, None,
                            Some("MR"), None, None)),
       \* 6: a length field runs past the end of the buffer
       DicomFile("truncated", NoTags),
       \* 7: 561 x 561 uniform, 16-bit, MONOCHROME1, rescaled and windowed
       DicomFile("ok", Tags(561, 561, 16, Some(<<40>>), "MONOCHROME1", 2, -50,
                            Some(40), Some(400), Some("CT"), None, Some(1))),
       \* 8: 12 bits allocated
       DicomFile("ok", Tags(2, 2, 12, Some(Ramp), "MONOCHROME2", 1, 0, None, None,
                            None, None, None)),
       \* 9: the empty file
       OtherFile(<<>>, NoImage),
       \* 10: 131 bytes, the literal one byte early (offset 127)
       OtherFile(Pad(MagicOffset - 1) \o Magic, NoImage),
       \* 11: a 2 x 2 opaque image
       OtherFile(<<137, 80, 78, 71>>,
                 [decodes |-> TRUE, width |-> 2, height |-> 2,
                  pattern |-> <<100, 110, 120, 90>>, alpha |-> "opaque"]),
       \* 12: a 1024 x 768 uniform half-transparent image
       OtherFile(<<137, 80, 78, 71>> \o Pad(MagicOffset) \o <<68, 73, 67>>,
                 [decodes |-> TRUE, width |-> 1024, height |-> 768,
                  pattern |-> <<200>>, alpha |-> "translucent"]),
       \* 13: an image without intrinsic size (img.width = img.height = 0)
       OtherFile(<<60, 115, 118, 103>>,
                 [decodes |-> TRUE, width |-> 0, height |-> 0,
                  pattern |-> <<0>>, alpha |-> "opaque"]) >>

Files == 1..Len(FileTable)

(***************************************************************************)
(* handleFile after its await (lines 31-119) and img.onload (lines 91-110),*)
(* as functions of the file, the canvas and the environment.  An outcome   *)
(* records the branch taken, the stages invoked in order, the error thrown *)
(* (None if none), the classifier's output and the result passed to        *)
(* setResult (None if not reached), the canvas afterwards and whether an   *)
(* Image was started.                                                      *)
(***************************************************************************)
Thrown(path, stages, msg, cv) ==
    [path |-> path, stages |-> stages, thrown |-> Some(msg),
     classified |-> None, resultSet |-> None, canvas |-> cv, image |-> FALSE]

UsesDicomPath_Inverted(bytes) == ~isLikelyDicom(bytes)

\* line 36
UsesDicomPath(bytes) == isLikelyDicom(bytes)

NormalizeStage_RawWhenNoWindow(info) ==
    IF info.windowCenter = None
    THEN [stages |-> <<>>, out |-> [tag |-> "ok", val |-> Val(info.pixelData).samples]]
    ELSE [stages |-> <<"normalize">>, out |-> NormalizeCall(info)]

\* lines 46-53, with the stage it invokes
NormalizeStage(info) == [stages |-> <<"normalize">>, out |-> NormalizeCall(info)]

\* lines 68-70 and 102-104: getImageData, computeFeaturesFromImageData,
\* classifyFeatures
AnalyzeCanvas(cv, w, h, wts) ==
    LET img == GetImageData(cv, w, h)
    IN  IF img.tag = "throw"
        THEN [tag |-> "throw", msg |-> img.msg, stages |-> <<>>]
        ELSE LET feat == computeFeaturesFromImageData(img.val)
             IN  IF feat.tag = "throw"
                 THEN [tag |-> "throw", msg |-> feat.msg, stages |-> <<"extract">>]
                 ELSE [tag |-> "ok", val |-> classifyFeatures(feat.val, wts),
                       stages |-> <<"extract", "classify">>]

DicomResult_SwappedProbabilities(c, info) ==
    [label |-> c.label,
     probabilityCT |-> c.probabilityMRI,
     probabilityMRI |-> c.probabilityCT,
     modality |-> info.modality,
     meta |-> [modality |-> info.modality,
               transferSyntax |-> info.transferSyntax,
               rows |-> info.rows, columns |-> info.columns,
               windowCenter |-> info.windowCenter,
               windowWidth |-> info.windowWidth,
               rescaleSlope |-> info.rescaleSlope,
               rescaleIntercept |-> info.rescaleIntercept,
               frames |-> info.numberOfFrames]]

DicomResult_LabelFromModality(c, info) ==
    [label |-> IF info.modality = Some("MR") THEN "MRI" ELSE c.label,
     probabilityCT |-> c.probabilityCT,
     probabilityMRI |-> c.probabilityMRI,
     modality |-> info.modality,
     meta |-> [modality |-> info.modality,
               transferSyntax |-> info.transferSyntax,
               rows |-> info.rows, columns |-> info.columns,
               windowCenter |-> info.windowCenter,
               windowWidth |-> info.windowWidth,
               rescaleSlope |-> info.rescaleSlope,
               rescaleIntercept |-> info.rescaleIntercept,
               frames |-> info.numberOfFrames]]

\* the object of lines 72-88
DicomResult(c, info) ==
    [label |-> c.label,
     probabilityCT |-> c.probabilityCT,
     probabilityMRI |-> c.probabilityMRI,
     modality |-> info.modality,
     meta |-> [modality |-> info.modality,
               transferSyntax |-> info.transferSyntax,
               rows |-> info.rows, columns |-> info.columns,
               windowCenter |-> info.windowCenter,
               windowWidth |-> info.windowWidth,
               rescaleSlope |-> info.rescaleSlope,
               rescaleIntercept |-> info.rescaleIntercept,
               frames |-> info.numberOfFrames]]

\* the object of lines 105-109
ImageResult(c) ==
    [label |-> c.label,
     probabilityCT |-> c.probabilityCT,
     probabilityMRI |-> c.probabilityMRI]

\* lines 37-88
DicomBranch(f, cv, wts) ==
    LET parsed == parseDicom(f)
    IN  IF parsed.tag = "throw" THEN Thrown("dicom", <<"decode">>, parsed.msg, cv)
        ELSE IF parsed.tag = "null"
        THEN Thrown("dicom", <<"decode">>, "Failed to parse DICOM", cv)
        ELSE
        LET info == parsed.info
        IN  IF info.rows = 0 \/ info.columns = 0 \/ info.pixelData = None
            THEN Thrown("dicom", <<"decode">>, "Missing pixel data", cv)
            ELSE
            LET dims == ResizeDims(info.columns, info.rows, DicomMaxDim)
                norm == NormalizeStage(info)
                s1 == <<"decode">> \o norm.stages
            IN  IF norm.out.tag = "throw" THEN Thrown("dicom", s1, norm.out.msg, cv)
                ELSE
                LET temp == [width |-> info.columns, height |-> info.rows,
                             pattern |-> norm.out.val, alpha |-> "opaque"]
                    cv2 == DrawImage(SetCanvasSize(cv, dims.width, dims.height),
                                     temp, dims.width, dims.height)
                    an == AnalyzeCanvas(cv2, dims.width, dims.height, wts)
                IN  IF an.tag = "throw"
                    THEN Thrown("dicom", s1 \o an.stages, an.msg, cv2)
                    ELSE [path |-> "dicom",
                          stages |-> s1 \o an.stages \o <<"setResult">>,
                          thrown |-> None,
                          classified |-> Some(an.val),
                          resultSet |-> Some(DicomResult(an.val, info)),
                          canvas |-> cv2, image |-> FALSE]

\* lines 31-114: the try block after the await
HandleFileBody(f, cv, ctx, wts) ==
    IF ~ctx THEN Thrown("none", <<>>, "Canvas context unavailable", cv)
    ELSE IF UsesDicomPath(f.head) THEN DicomBranch(f, cv, wts)
    ELSE [path |-> "image", stages |-> <<"imageDecode">>, thrown |-> None,
          classified |-> None, resultSet |-> None, canvas |-> cv, image |-> TRUE]

\* lines 91-110: img.onload; an error thrown here has no handler
OnloadBody(f, cv, wts) ==
    LET dims == ResizeDims(f.image.width, f.image.height, ImageMaxDim)
        cv2 == DrawImage(SetCanvasSize(cv, dims.width, dims.height),
                         f.image, dims.width, dims.height)
        an == AnalyzeCanvas(cv2, dims.width, dims.height, wts)
    IN  IF an.tag = "throw"
        THEN [stages |-> an.stages, thrown |-> Some(an.msg),
              classified |-> None, resultSet |-> None, canvas |-> cv2]
        ELSE [stages |-> an.stages \o <<"setResult">>, thrown |-> None,
              classified |-> Some(an.val),
              resultSet |-> Some(ImageResult(an.val)), canvas |-> cv2]

\* line 116: e?.message || 'Unexpected error'
CatchMessage(msg) == IF msg = "" THEN "Unexpected error" ELSE msg

(***************************************************************************)
(* The component as a state machine.                                       *)
(***************************************************************************)
\* What the history keeps of one handleFile invocation.
NewRun(f) ==
    [file |-> f, read |-> "pending", path |-> "none", stages |-> <<>>,
     classified |-> None, resultSet |-> None, errorSet |-> None,
     uncaught |-> None, done |-> FALSE]

\* Reasons file.arrayBuffer() rejects with (the second has no message).
ReadErrors == {"NotReadableError", ""}

\* SpecResize and SpecNormalize state while Spec runs.
RzIdle == [phase |-> "idle"]
NzIdle == [phase |-> "idle"]

Init ==
    /\ result = None
    /\ error = None
    /\ loading = FALSE
    /\ canvas = BlankCanvas
    /\ ctxOk \in BOOLEAN
    /\ weights \in Weights
    /\ pickerOpen = FALSE
    /\ reading = None
    /\ images = {}
    /\ runs = <<>>
    /\ rz = RzIdle
    /\ nz = NzIdle

\* line 22 behind the button of line 146 (disabled while loading)
onPick ==
    /\ ~loading
    /\ ~pickerOpen
    /\ Len(runs) < MaxSelections
    /\ pickerOpen' = TRUE
    /\ UNCHANGED <<result, error, loading, canvas, ctxOk, weights, reading,
                   images, runs, rz, nz>>

\* lines 122-124: the change event without a file
onChangeNoFile ==
    /\ pickerOpen
    /\ pickerOpen' = FALSE
    /\ UNCHANGED <<result, error, loading, canvas, ctxOk, weights, reading,
                   images, runs, rz, nz>>

\* lines 122-125 and 24-30: the change event with a file; handleFile runs
\* to its await
onChange(f) ==
    /\ pickerOpen
    /\ pickerOpen' = FALSE
    /\ error' = None
    /\ result' = None
    /\ loading' = TRUE
    /\ runs' = Append(runs, NewRun(f))
    /\ reading' = Some(Len(runs) + 1)
    /\ UNCHANGED <<canvas, ctxOk, weights, images, rz, nz>>

\* lines 30-119: the read resolves and handleFile runs to its end
ReadResolved ==
    /\ reading # None
    /\ LET id == Val(reading)
           out == HandleFileBody(FileTable[runs[id].file], canvas, ctxOk, weights)
           msg == IF out.thrown = None THEN None
                  ELSE Some(CatchMessage(Val(out.thrown)))
       IN  /\ result' = IF out.resultSet # None THEN out.resultSet ELSE result
           /\ error' = IF msg # None THEN msg ELSE error
           /\ canvas' = out.canvas
           /\ images' = IF out.image THEN images \cup {id} ELSE images
           /\ runs' = [runs EXCEPT ![id] =
                          [@ EXCEPT !.read = "ok", !.path = out.path,
                                    !.stages = out.stages,
                                    !.classified = out.classified,
                                    !.resultSet = out.resultSet,
                                    !.errorSet = msg,
                                    !.done = ~out.image]]
    /\ loading' = FALSE
    /\ reading' = None
    /\ UNCHANGED <<ctxOk, weights, pickerOpen, rz, nz>>

\* ReadRejected without the finally of lines 117-119.
ReadRejected_NoFinally(e) ==
    /\ reading # None
    /\ error' = Some(CatchMessage(e))
    /\ runs' = [runs EXCEPT ![Val(reading)] =
                   [@ EXCEPT !.read = "rejected",
                             !.errorSet = Some(CatchMessage(e)),
                             !.done = TRUE]]
    /\ reading' = None
    /\ UNCHANGED <<result, loading, canvas, ctxOk, weights, pickerOpen,
                   images, rz, nz>>

\* lines 30, 115-119: the read rejects
ReadRejected(e) ==
    /\ reading # None
    /\ error' = Some(CatchMessage(e))
    /\ loading' = FALSE
    /\ runs' = [runs EXCEPT ![Val(reading)] =
                   [@ EXCEPT !.read = "rejected",
                             !.errorSet = Some(CatchMessage(e)),
                             !.done = TRUE]]
    /\ reading' = None
    /\ UNCHANGED <<result, canvas, ctxOk, weights, pickerOpen, images, rz, nz>>

\* lines 91-110: the platform decoded the image of run id
ImgOnload(id) ==
    /\ id \in images
    /\ FileTable[runs[id].file].image.decodes
    /\ LET out == OnloadBody(FileTable[runs[id].file], canvas, weights)
       IN  /\ result' = IF out.resultSet # None THEN out.resultSet ELSE result
           /\ canvas' = out.canvas
           /\ runs' = [runs EXCEPT ![id] =
                          [@ EXCEPT !.stages = @ \o out.stages,
                                    !.classified = out.classified,
                                    !.resultSet = out.resultSet,
                                    !.uncaught = out.thrown,
                                    !.done = TRUE]]
    /\ images' = images \ {id}
    /\ UNCHANGED <<error, loading, ctxOk, weights, pickerOpen, reading, rz, nz>>

\* ImgOnerror with no onerror handler installed.
ImgOnerror_NoHandler(id) ==
    /\ id \in images
    /\ ~FileTable[runs[id].file].image.decodes
    /\ runs' = [runs EXCEPT ![id] = [@ EXCEPT !.done = TRUE]]
    /\ images' = images \ {id}
    /\ UNCHANGED <<result, error, loading, canvas, ctxOk, weights, pickerOpen,
                   reading, rz, nz>>

\* line 111: the platform could not decode the image of run id
ImgOnerror(id) ==
    /\ id \in images
    /\ ~FileTable[runs[id].file].image.decodes
    /\ error' = Some("Failed to load image")
    /\ runs' = [runs EXCEPT ![id] =
                   [@ EXCEPT !.errorSet = Some("Failed to load image"),
                             !.done = TRUE]]
    /\ images' = images \ {id}
    /\ UNCHANGED <<result, loading, canvas, ctxOk, weights, pickerOpen,
                   reading, rz, nz>>

Next ==
    \/ onPick
    \/ onChangeNoFile
    \/ \E f \in Files : onChange(f)
    \/ ReadResolved
    \/ \E e \in ReadErrors : ReadRejected(e)
    \/ \E id \in images : ImgOnload(id)
    \/ \E id \in images : ImgOnerror(id)

Spec == Init /\ [][Next]_vars

(***************************************************************************)
(* Properties of the component (specification Spec).                       *)
(***************************************************************************)
RunIds == 1..Len(runs)
FileOf(i) == FileTable[runs[i].file]

\* Bytes 128-131 (0-based) are 'D', 'I', 'C', 'M'.
HasMagic(head) ==
    /\ Len(head) >= 132
    /\ head[129] = 68 /\ head[130] = 73 /\ head[131] = 67 /\ head[132] = 77

IsPrefix(s, t) == Len(s) <= Len(t) /\ s = SubSeq(t, 1, Len(s))

Invoked(i, stage) == \E k \in 1..Len(runs[i].stages) : runs[i].stages[k] = stage

\* C1 as stated: every file whose bytes were read takes the DICOM path if
\* bytes 128-131 are 'DICM' and the generic-image path otherwise, and only
\* a file with the literal is handed to the DICOM decoder.
C1_PathIffMagic ==
    \A i \in RunIds :
        runs[i].read = "ok" =>
            /\ HasMagic(FileOf(i).head) => runs[i].path = "dicom"
            /\ ~HasMagic(FileOf(i).head) =>
                   runs[i].path = "image" /\ ~Invoked(i, "decode")

\* C1 amended: the same, where a 2D canvas context is available (line 34
\* throws before the branch otherwise); and in every case only a file with
\* the literal is decoded as DICOM.
C1_PathIffMagicGivenContext ==
    \A i \in RunIds :
        runs[i].read = "ok" =>
            /\ ctxOk /\ HasMagic(FileOf(i).head) => runs[i].path = "dicom"
            /\ ctxOk /\ ~HasMagic(FileOf(i).head) => runs[i].path = "image"
            /\ ~ctxOk => runs[i].path = "none"
            /\ ~HasMagic(FileOf(i).head) =>
                   runs[i].path # "dicom" /\ ~Invoked(i, "decode")

\* With a context available, the 131-byte file carrying the literal one byte
\* early went the generic-image path and a file with the literal at offset
\* 128 was handed to the DICOM decoder.
C1_Witness ==
    /\ ctxOk
    /\ Len(runs) = 2
    /\ runs[1].file = 10 /\ runs[1].path = "image"
    /\ runs[2].file = 1 /\ runs[2].path = "dicom" /\ Invoked(2, "decode")

\* The error kind of the specification (section 7) a reported message names.
ErrorKind(msg) ==
    CASE msg = "Missing pixel data" -> "MissingPixelDataError"
      [] msg \in {"TruncatedStreamError", "UnsupportedEncodingError",
                  "InvalidDimensionsError", "MissingPixelDataError",
                  "UnsupportedBitDepthError", "MalformedRasterError"} -> msg
      [] OTHER -> "Error"

\* The decoder returned a record for run i's file and its Rows or Columns is 0.
DecodedZeroDimension(i) ==
    /\ runs[i].done
    /\ runs[i].path = "dicom"
    /\ parseDicom(FileOf(i)).tag = "ok"
    /\ (FileOf(i).tags.rows = 0 \/ FileOf(i).tags.columns = 0)

\* C2 as stated: a DICOM file whose decoded record has rows = 0 or columns =
\* 0 fails with an InvalidDimensionsError; the failure reported to the user
\* is of that kind, normalize, extract and classify are not run on the
\* record, and the run sets no result.
C2_ZeroDimensionIsInvalidDimensions ==
    \A i \in RunIds :
        DecodedZeroDimension(i) =>
            /\ runs[i].errorSet # None
            /\ ErrorKind(Val(runs[i].errorSet)) = "InvalidDimensionsError"
            /\ ~Invoked(i, "normalize")
            /\ ~Invoked(i, "extract")
            /\ ~Invoked(i, "classify")
            /\ runs[i].resultSet = None

\* A pipeline stage failed in run i: the decoder, the normalizer, the
\* extractor or the classifier on the DICOM path, the platform image decoder
\* or a stage inside img.onload on the generic-image path.
StageFailed(i) ==
    /\ runs[i].done
    /\ \/ runs[i].path = "dicom" /\ runs[i].errorSet # None
       \/ runs[i].path = "image" /\ runs[i].errorSet # None
       \/ runs[i].uncaught # None

\* C3 as stated: when a stage fails while a file is processed, the failure is
\* reported and no result is set for the file: error is non-null and result
\* is null (for the file selected last, whose outcome the component shows).
C3_StageFailureShowsErrorAndNoResult ==
    \A i \in RunIds :
        StageFailed(i) =>
            /\ runs[i].errorSet # None
            /\ runs[i].resultSet = None
            /\ i = Len(runs) => error # None /\ result = None

DicomOrder == <<"decode", "normalize", "extract", "classify", "setResult">>
ImageOrder == <<"imageDecode", "extract", "classify", "setResult">>

\* C4: the stages a run invokes are an initial part of decode, normalize,
\* extract, classify, setResult on the DICOM path and of image decode,
\* extract, classify, setResult on the generic-image path (which therefore
\* never invokes the DICOM decoder or the normalizer); a run that set a
\* result ran every stage of its path, classify before setResult.
C4_StageOrder ==
    \A i \in RunIds :
        /\ runs[i].path = "dicom" => IsPrefix(runs[i].stages, DicomOrder)
        /\ runs[i].path = "image" =>
               /\ IsPrefix(runs[i].stages, ImageOrder)
               /\ ~Invoked(i, "decode") /\ ~Invoked(i, "normalize")
        /\ runs[i].path = "none" => runs[i].stages = <<>>
        /\ runs[i].resultSet # None =>
               runs[i].stages = (IF runs[i].path = "dicom" THEN DicomOrder
                                 ELSE ImageOrder)

\* Both paths ran to their end: a DICOM file and an image each set a result.
C4_Witness ==
    /\ Len(runs) = 2
    /\ runs[1].path = "image" /\ runs[1].stages = ImageOrder
    /\ runs[2].path = "dicom" /\ runs[2].stages = DicomOrder
    /\ runs[1].resultSet # None /\ runs[2].resultSet # None

\* The classifier output invariant, for a result or a classifier output r.
ClassifierInvariant(r) ==
    /\ r.label \in {"CT", "MRI"}
    /\ r.probabilityCT \in 0..ProbDen
    /\ r.probabilityCT + r.probabilityMRI = ProbDen
    /\ r.label = "CT" <=> 2 * r.probabilityCT >= ProbDen

\* C5: a result that is set carries the label and the two probabilities of
\* the classifier's output for that run unchanged, they sum to 1, and the
\* label is CT exactly when probabilityCT >= 0.5.
C5_ResultKeepsClassifierOutput ==
    /\ \A i \in RunIds :
           runs[i].resultSet # None =>
               LET r == Val(runs[i].resultSet)
                   c == Val(runs[i].classified)
               IN  /\ runs[i].classified # None
                   /\ r.label = c.label
                   /\ r.probabilityCT = c.probabilityCT
                   /\ r.probabilityMRI = c.probabilityMRI
                   /\ ClassifierInvariant(r)
    /\ result # None => ClassifierInvariant(Val(result))

\* A DICOM result that is a tie (probabilityCT = 1/2, label CT) is shown and
\* an image result with probabilityCT < 1/2 (label MRI) was set before.
C5_Witness ==
    /\ result # None
    /\ "meta" \in DOMAIN Val(result)
    /\ 2 * Val(result).probabilityCT = ProbDen
    /\ Val(result).label = "CT"
    /\ \E i \in RunIds :
           /\ runs[i].path = "image" /\ runs[i].resultSet # None
           /\ Val(runs[i].resultSet).label = "MRI"

\* What a run recorded of its outcome: the path, the stages, the result and
\* the error it set.
OutcomeOf(i) ==
    [path |-> runs[i].path, stages |-> runs[i].stages,
     resultSet |-> runs[i].resultSet, errorSet |-> runs[i].errorSet]

\* The outcome of processing f as the first file of a freshly mounted
\* component (blank canvas, nothing processed before).
FreshOutcome(f) ==
    LET h == HandleFileBody(f, BlankCanvas, ctxOk, weights)
        o == OnloadBody(f, h.canvas, weights)
    IN  IF ~h.image
        THEN [path |-> h.path, stages |-> h.stages, resultSet |-> h.resultSet,
              errorSet |-> IF h.thrown = None THEN None
                           ELSE Some(CatchMessage(Val(h.thrown)))]
        ELSE IF f.image.decodes
        THEN [path |-> h.path, stages |-> h.stages \o o.stages,
              resultSet |-> o.resultSet, errorSet |-> None]
        ELSE [path |-> h.path, stages |-> h.stages, resultSet |-> None,
              errorSet |-> Some("Failed to load image")]

\* The bytes of run i's file were read and its processing has finished.
Processed(i) == runs[i].read = "ok" /\ runs[i].done

\* C7: two finished runs on the same bytes took the same path, invoked the
\* same stages and set the same result or the same error, and each did what
\* a run on a freshly mounted component does: nothing processed before
\* changes the outcome.
C7_Deterministic ==
    /\ \A i, j \in RunIds :
           Processed(i) /\ Processed(j) /\ runs[i].file = runs[j].file =>
               OutcomeOf(i) = OutcomeOf(j)
    /\ \A i \in RunIds :
           Processed(i) => OutcomeOf(i) = FreshOutcome(FileOf(i))

\* The half-transparent image was processed after an opaque one had been
\* drawn on the canvas, and a result was set for each.
C7_Witness ==
    /\ Len(runs) = 2
    /\ Processed(1) /\ Processed(2)
    /\ runs[1].file = 11 /\ runs[2].file = 12
    /\ runs[1].resultSet # None /\ runs[2].resultSet # None
    /\ Len(canvas.layers) = 1

\* Two files that differ in nothing but the Modality, TransferSyntaxUID and
\* NumberOfFrames values.
DifferOnlyInMetadata(f, g) ==
    /\ f # g
    /\ f.head = g.head /\ f.stream = g.stream /\ f.image = g.image
    /\ [f.tags EXCEPT !.modality = None, !.transferSyntax = None,
                      !.numberOfFrames = None]
       = [g.tags EXCEPT !.modality = None, !.transferSyntax = None,
                        !.numberOfFrames = None]

\* The metadata map of result r is the decoded record t's own values.
MetaIsOwn(r, t) ==
    /\ r.modality = t.modality
    /\ r.meta.modality = t.modality
    /\ r.meta.transferSyntax = t.transferSyntax
    /\ r.meta.rows = t.rows
    /\ r.meta.columns = t.columns
    /\ r.meta.windowCenter = t.windowCenter
    /\ r.meta.windowWidth = t.windowWidth
    /\ r.meta.rescaleSlope = t.rescaleSlope
    /\ r.meta.rescaleIntercept = t.rescaleIntercept
    /\ r.meta.frames = t.numberOfFrames

\* C9: two DICOM files that differ only in modality, transferSyntax or
\* numberOfFrames get the same label and probabilities, and the metadata map
\* of every DICOM result carries the values of its own file.
C9_MetadataDisplayOnly ==
    /\ \A i, j \in RunIds :
           /\ runs[i].resultSet # None /\ runs[j].resultSet # None
           /\ DifferOnlyInMetadata(FileOf(i), FileOf(j))
           => LET a == Val(runs[i].resultSet)
                  b == Val(runs[j].resultSet)
              IN  /\ a.label = b.label
                  /\ a.probabilityCT = b.probabilityCT
                  /\ a.probabilityMRI = b.probabilityMRI
    /\ \A i \in RunIds :
           runs[i].path = "dicom" /\ runs[i].resultSet # None =>
               MetaIsOwn(Val(runs[i].resultSet), FileOf(i).tags)

\* The CT-tagged and the MR-tagged copy of the same image were both
\* classified CT, each result showing its own modality.
C9_Witness ==
    /\ Len(runs) = 2
    /\ runs[1].file = 1 /\ runs[2].file = 2
    /\ runs[1].resultSet # None /\ runs[2].resultSet # None
    /\ Val(runs[1].resultSet).label = "CT"
    /\ Val(runs[1].resultSet).meta.modality = Some("CT")
    /\ Val(runs[2].resultSet).meta.modality = Some("MR")
    /\ Val(runs[2].resultSet).meta.frames = Some(2)

\* Nothing is pending: no read is in flight and no image is being decoded.
Quiescent == reading = None /\ images = {}

\* Run i has set neither a result nor an error yet.
OutcomePending(i) == runs[i].resultSet = None /\ runs[i].errorSet = None

\* C11 as stated: once all pending work has finished, the displayed result
\* is the one the most recently selected file set (none if that file set
\* none): a result of an earlier file neither replaces nor outlives it.
C11_ResultBelongsToLatestFile ==
    (runs # <<>> /\ Quiescent) => result = runs[Len(runs)].resultSet

\* C12 as stated: loading is true for as long as a selected file has
\* neither its result nor its error set, so at most one file is without its
\* outcome at any time.
C12_AtMostOneInFlight ==
    /\ \A i \in RunIds : OutcomePending(i) => loading
    /\ Cardinality({i \in RunIds : OutcomePending(i)}) <= 1

\* C13 as stated: error and result are never both non-null.
C13_ErrorAndResultExclusive == ~(error # None /\ result # None)

(***************************************************************************)
(* SpecLive: the component with the scheduling the platform gives it.  The *)
(* promise of file.arrayBuffer() settles (line 30), and an Image whose src *)
(* was assigned (line 113) fires onload or onerror.  The user is under no  *)
(* obligation to pick a file.  Files are drawn from LiveFiles: a DICOM     *)
(* file that classifies, one that line 39 rejects, one the decoder throws  *)
(* on, one the normalizer throws on, a file no path decodes, and a         *)
(* decodable image.                                                        *)
(***************************************************************************)
LiveFiles == {1, 3, 6, 8, 9, 11}

InitLive ==
    /\ Init
    /\ weights = [bias |-> 0, weight |-> <<1, -1>>]

NextLive ==
    \/ onPick
    \/ onChangeNoFile
    \/ \E f \in LiveFiles : onChange(f)
    \/ ReadResolved
    \/ \E e \in ReadErrors : ReadRejected(e)
    \/ \E id \in images : ImgOnload(id)
    \/ \E id \in images : ImgOnerror(id)

\* The step that settles the pending read.  Of the steps of NextLive only
\* ReadResolved and ReadRejected change reading to none, and one of them is
\* enabled whenever a read is pending.
ReadSettled == reading # None /\ reading' = None

\* The step that fires onload or onerror of run id's Image.  Of the steps of
\* NextLive only ImgOnload(id) and ImgOnerror(id) remove id from images, and
\* one of them is enabled whenever id is in images.
ImageSettled(id) == id \in images /\ images' = images \ {id}

\* line 30: the promise of file.arrayBuffer() settles
ReadSettles == WF_reading(ReadSettled)

\* lines 91, 111, 113: an Image whose src was assigned fires onload or onerror
ImageSettles == \A id \in 1..MaxSelections : WF_images(ImageSettled(id))

SpecLive == InitLive /\ [][NextLive]_vars /\ ReadSettles /\ ImageSettles

Selected(i) == Len(runs) >= i

\* C14: every selected file eventually has a result or an error set for it,
\* and whenever nothing is pending after a selection, error and result are
\* not both null.
C14_EveryFileGetsOutcome ==
    /\ \A i \in 1..MaxSelections :
           Selected(i) ~> (Selected(i) /\ ~OutcomePending(i))
    /\ []((runs # <<>> /\ Quiescent) => (result # None \/ error # None))

\* Two files were selected while the first, an image, was still being
\* decoded; the second failed at line 39 and the first then got its result
\* from img.onload.
C14_Witness ==
    /\ Len(runs) = 2 /\ Quiescent
    /\ runs[1].path = "image" /\ runs[1].resultSet # None
    /\ runs[2].path = "dicom" /\ runs[2].errorSet # None
    /\ runs[1].stages # <<>> /\ runs[2].stages = <<"decode">>

\* C15: every handleFile invocation whose read is pending eventually has
\* its read settled with loading false, whenever loading is true it is
\* eventually false, and every step that ends an invocation (success, a
\* thrown error, a rejected read; either branch) leaves loading false.
C15_LoadingEventuallyReset ==
    /\ \A i \in 1..MaxSelections :
           (Selected(i) /\ runs[i].read = "pending")
               ~> (Selected(i) /\ runs[i].read # "pending" /\ ~loading)
    /\ loading ~> ~loading
    /\ [][reading # None /\ reading' = None => ~loading']_vars

\* loading is false after a DICOM file set its result, and after a later
\* file whose read was rejected.
C15_Witness ==
    /\ ~loading
    /\ Len(runs) = 2
    /\ runs[1].path = "dicom" /\ runs[1].resultSet # None
    /\ runs[2].read = "rejected" /\ runs[2].errorSet # None

(***************************************************************************)
(* SpecResize: the resize arithmetic applied to every source size drawn    *)
(* from Sides x Sides, on the DICOM path (lines 39-44) and in img.onload   *)
(* (lines 92-95).                                                          *)
(***************************************************************************)
\* Sides whose scaled value is an exact integer that the double arithmetic
\* misses by one, and two large ones.
SpecialSides == {161, 322, 535, 561, 644, 966, 1070, 1536, 2048}

Sides ==
    (0..Slack)
    \cup ((DicomMaxDim - Slack)..(DicomMaxDim + Slack))
    \cup ((ImageMaxDim - Slack)..(ImageMaxDim + Slack))
    \cup SpecialSides

\* The environment of a run of the pure-function specifications.
ComponentIdle ==
    /\ result = None
    /\ error = None
    /\ loading = FALSE
    /\ canvas = BlankCanvas
    /\ ctxOk = TRUE
    /\ weights = [bias |-> 0, weight |-> <<1, -1>>]
    /\ pickerOpen = FALSE
    /\ reading = None
    /\ images = {}
    /\ runs = <<>>

ComponentUnchanged ==
    UNCHANGED <<result, error, loading, canvas, ctxOk, weights, pickerOpen,
                reading, images, runs>>

InitResize ==
    /\ ComponentIdle
    /\ nz = NzIdle
    /\ rz \in [phase : {"input"}, path : {"dicom", "image"},
               columns : Sides, rows : Sides, width : {0}, height : {0}]

\* line 39: a record without rows or columns throws before the arithmetic
ResizeDicomRejected ==
    /\ rz.phase = "input" /\ rz.path = "dicom"
    /\ rz.rows = 0 \/ rz.columns = 0
    /\ rz' = [rz EXCEPT !.phase = "thrown"]
    /\ UNCHANGED nz
    /\ ComponentUnchanged

\* lines 41-44
ResizeDicom ==
    /\ rz.phase = "input" /\ rz.path = "dicom"
    /\ ~(rz.rows = 0 \/ rz.columns = 0)
    /\ LET d == ResizeDims(rz.columns, rz.rows, DicomMaxDim)
       IN  rz' = [rz EXCEPT !.phase = "done", !.width = d.width,
                            !.height = d.height]
    /\ UNCHANGED nz
    /\ ComponentUnchanged

\* lines 92-95
ResizeImage ==
    /\ rz.phase = "input" /\ rz.path = "image"
    /\ LET d == ResizeDims(rz.columns, rz.rows, ImageMaxDim)
       IN  rz' = [rz EXCEPT !.phase = "done", !.width = d.width,
                            !.height = d.height]
    /\ UNCHANGED nz
    /\ ComponentUnchanged

NextResize == ResizeDicomRejected \/ ResizeDicom \/ ResizeImage

SpecResize == InitResize /\ [][NextResize]_vars

RzMaxDim == IF rz.path = "dicom" THEN DicomMaxDim ELSE ImageMaxDim

\* Each side of the canvas is between 1 and maxDim and not above the source
\* side it comes from when that side is at least 1.
RzBounded ==
    /\ rz.width \in 1..RzMaxDim
    /\ rz.height \in 1..RzMaxDim
    /\ rz.columns >= 1 => rz.width <= rz.columns
    /\ rz.rows >= 1 => rz.height <= rz.rows

\* C6 as stated: the size handed to the extractor is bounded as above, and
\* a source whose larger side is at most maxDim keeps its exact size.
C6_BoundedAndExactWhenSmall ==
    rz.phase = "done" =>
        /\ RzBounded
        /\ Max(rz.columns, rz.rows) <= RzMaxDim =>
               rz.width = rz.columns /\ rz.height = rz.rows

\* C6 amended: bounded as above, and a source whose larger side is at most
\* maxDim keeps every side that is at least 1; a side of 0 becomes 1.
C6_BoundedAndExactWhenSmallAndPositive ==
    rz.phase = "done" =>
        /\ RzBounded
        /\ Max(rz.columns, rz.rows) <= RzMaxDim =>
               /\ rz.width = (IF rz.columns >= 1 THEN rz.columns ELSE 1)
               /\ rz.height = (IF rz.rows >= 1 THEN rz.rows ELSE 1)

\* A 561 x 561 DICOM image was scaled below 512 on each side.
C6_Witness ==
    /\ rz.phase = "done" /\ rz.path = "dicom"
    /\ rz.columns = 561 /\ rz.rows = 561
    /\ rz.width = 511 /\ rz.height = 511

(***************************************************************************)
(* SpecNormalize: the normalizer call of lines 46-53 applied to a decoded  *)
(* record and to the same record under MONOCHROME1.                        *)
(***************************************************************************)
SampleValues == {0, 1, 85, 170, 255}

SampleSeqs ==
    {Ramp} \cup UNION {[1..n -> SampleValues] : n \in 1..MaxSamples}

\* Rescale pairs and window pairs of the enumerated records.
Rescales == {<<1, 0>>, <<2, -50>>}
Windows == {<<None, None>>, <<Some(128), Some(256)>>}

NzInputs ==
    {[phase |-> "input",
      info |-> Tags(1, Len(s), b, Some(s), "MONOCHROME2", r[1], r[2],
                    w[1], w[2], None, None, None),
      mono2 |-> <<>>, mono1 |-> <<>>] :
        s \in SampleSeqs, b \in {8, 16}, r \in Rescales, w \in Windows}

InitNormalize ==
    /\ ComponentIdle
    /\ rz = RzIdle
    /\ nz \in NzInputs

\* lines 46-53 for the record and for its MONOCHROME1 twin
NormalizePair ==
    /\ nz.phase = "input"
    /\ LET twin == [nz.info EXCEPT !.photometricInterpretation = "MONOCHROME1"]
       IN  nz' = [nz EXCEPT !.phase = "done",
                            !.mono2 = NormalizeCall(nz.info).val,
                            !.mono1 = NormalizeCall(twin).val]
    /\ UNCHANGED rz
    /\ ComponentUnchanged

NextNormalize == NormalizePair

SpecNormalize == InitNormalize /\ [][NextNormalize]_vars

\* C8 as stated: the raster of the MONOCHROME1 input is the pixel-wise
\* complement (255 - v) of the raster of the MONOCHROME2 input.
C8_Monochrome1IsComplement ==
    nz.phase = "done" =>
        /\ Len(nz.mono1) = Len(nz.mono2)
        /\ \A i \in 1..Len(nz.mono2) : nz.mono1[i] = 255 - nz.mono2[i]

NzSamples == Val(nz.info.pixelData).samples

NzNoWindow == nz.info.windowCenter = None /\ nz.info.windowWidth = None

\* C10: without window tags, for 8-bit samples under slope 2 and intercept
\* -50, a smaller sample never gets a larger normalized value and every
\* normalized value is in 0..255; under the identity rescale the samples
\* 0, 85, 170, 255 normalize to 0, 85, 170, 255.
C10_DerivedWindowMonotone ==
    nz.phase = "done" /\ NzNoWindow /\ Val(nz.info.pixelData).bits = 8 =>
        /\ nz.info.rescaleSlope = 2 /\ nz.info.rescaleIntercept = -50 =>
               /\ Len(nz.mono2) = Len(NzSamples)
               /\ \A i, j \in 1..Len(NzSamples) :
                      NzSamples[i] < NzSamples[j] => nz.mono2[i] <= nz.mono2[j]
               /\ \A i \in 1..Len(nz.mono2) : nz.mono2[i] \in 0..255
        /\ /\ nz.info.rescaleSlope = 1 /\ nz.info.rescaleIntercept = 0
           /\ NzSamples = Ramp
           => nz.mono2 = Ramp

\* Samples 0, 85, 255 under slope 2 and intercept -50 (rescaled -50, 120,
\* 460) were normalized with the derived window to 0, 85, 255.
C10_Witness ==
    /\ nz.phase = "done" /\ NzNoWindow
    /\ Val(nz.info.pixelData).bits = 8
    /\ nz.info.rescaleSlope = 2 /\ nz.info.rescaleIntercept = -50
    /\ NzSamples = <<0, 85, 255>>
    /\ nz.mono2 = <<0, 85, 255>>

====
